---- MODULE Spec2Model ----
(***************************************************************************)
(* chdig: the live-view synchronisation engine of the processes panel.     *)
(*                                                                         *)
(* Threads: the UI thread (navigation, Drop of a panel, update_processes), *)
(* one poller thread per panel instance (ProcessesView::start), and the    *)
(* worker thread of the command dispatcher.  Shared: the Session State     *)
(* mutex (context), the worker's command channel, the `processes` result   *)
(* slot, and per panel the stop flag with its mutex and condition variable.*)
(***************************************************************************)
EXTENDS Integers, Sequences, FiniteSets, TLC

\* ------------------------------------------------------------------ bounds
\* Panel instances constructed over a run.
MaxPanels == 2
\* Commands pending in the worker's channel.
MaxQueue == 3
\* Largest cumulative value (elapsed, profile events) a fetched row reports.
MaxElapsed == 2
\* Rows of one fetched result set.
MaxRows == 2
\* Scheduled closures and dialogs that are open at one time.
MaxDialogs == 1
\* Commands of the operator pending in the worker's channel.
MaxSubmitted == 1

\* ------------------------------------------------------------- value sets
PanelIds == 1..MaxPanels

\* Owners of the Session State mutex: nobody, the worker, or the poller of panel i.
NoOwner == <<>>
WorkerOwner == <<"worker">>
PollerOwner(i) == <<"poller", i>>

\* The panel kinds of the Navigation trait that the model exercises.
Kinds == {"processes", "merges"}

\* Stable identities of running queries, in the order the rows are listed.
QueryIdSeq == <<"A", "B", "C">>
QueryIds == {QueryIdSeq[n] : n \in 1..Len(QueryIdSeq)}
Position(q) == CHOOSE n \in 1..Len(QueryIdSeq) : QueryIdSeq[n] = q

\* Option<T>: None is the empty sequence, Some(v) the one-element sequence.
None == <<>>
Some(v) == <<v>>

VARIABLES
    options,     \* context.options.view.no_group_by, fixed for the process
    screen,      \* the view stack: layers bottom to top, [name, panel]
    kind,        \* panel instance -> its kind, "none" while not constructed
    uiPc,        \* position of the UI thread
    uiKind,      \* the panel kind the running show_clickhouse_* installs
    uiPanel,     \* the panel instance the UI thread is dropping or building
    dropped,     \* panel instance -> its Drop has returned
    stop,        \* cv.0: the stop flag of each panel
    cvOwner,     \* holder of the mutex around cv.0: "none" or "poller"
    pollerPc,    \* position of each panel's background loop
    timedOut,    \* WaitTimeoutResult of the poller's last wait_timeout
    ctxOwner,    \* holder of the Session State mutex
    queue,       \* the worker's command channel
    processes,   \* context.processes: Option of the fetched rows
    workerPc,    \* position of the worker thread
    workerCmd,   \* the command the worker is executing
    items,       \* ProcessesView.items: query_id -> QueryProcess
    tableItems,  \* ProcessesView.table: the rows in display order
    focus,       \* the table's selected row (0-based)
    query_id,    \* ProcessesView.query_id: the drill-down identity
    group_by,    \* ProcessesView.group_by
    cbSink       \* context.cb_sink: closures scheduled for the UI thread

vars ==
    <<options, screen, kind, uiPc, uiKind, uiPanel, dropped, stop, cvOwner, pollerPc,
      timedOut, ctxOwner, queue, processes, workerPc, workerCmd, items,
      tableItems, focus, query_id, group_by, cbSink>>

navVars == <<screen, kind, uiPc, uiKind, uiPanel, dropped>>
pollerVars == <<stop, cvOwner, pollerPc, timedOut>>
workerVars == <<workerPc, workerCmd>>
viewVars == <<items, tableItems, focus, query_id, group_by>>

\* ----------------------------------------------------------------- helpers
EmptyItems == [q \in {} |-> None]

\* A find_name that finds nothing.
FindName_Never(k) == FALSE

\* Cursive::find_name: some layer of the stack holds a view of that name.
FindName(k) ==
    \E n \in 1..Len(screen) : screen[n].name = k

\* The panel instance i is a layer of the stack.
OnScreen(i) ==
    \E n \in 1..Len(screen) : screen[n].panel = i

NumPanels == Cardinality({i \in PanelIds : kind[i] # "none"})

\* A poller thread that has been spawned and has not exited.
PollerLive(i) == pollerPc[i] \notin {"none", "done"}

\* -------------------------------------------------------------------- Init
Init ==
    /\ options \in [no_group_by : BOOLEAN]
    /\ screen = <<>>
    /\ kind = [i \in PanelIds |-> "none"]
    /\ uiPc = "idle"
    /\ uiKind = "none"
    /\ uiPanel = 0
    /\ dropped = [i \in PanelIds |-> FALSE]
    /\ stop = [i \in PanelIds |-> FALSE]
    /\ cvOwner = [i \in PanelIds |-> "none"]
    /\ pollerPc = [i \in PanelIds |-> "none"]
    /\ timedOut = [i \in PanelIds |-> FALSE]
    /\ ctxOwner = NoOwner
    /\ queue = <<>>
    /\ processes = None
    /\ workerPc = "idle"
    /\ workerCmd = "none"
    /\ items = EmptyItems
    /\ tableItems = <<>>
    /\ focus = 0
    /\ query_id = None
    /\ group_by = FALSE
    /\ cbSink = <<>>

\* -------------------------------------------------------------- navigation
\* The commands a panel's refresh consists of.
ProcessesRefresh == <<"UpdateProcessList", "UpdateSummary">>
MergesRefresh == <<"UpdateMerges">>
RefreshCommands(k) == IF k = "processes" THEN ProcessesRefresh ELSE MergesRefresh

\* The command ProcessesView::new submits before it starts the poller.
FirstRefresh(k) == IF k = "processes" THEN "UpdateProcessList" ELSE "UpdateMerges"

\* show_clickhouse_<k>: return at once when a view of that name is on the
\* stack, otherwise start popping the layers.
UiShow(k) ==
    /\ uiPc = "idle"
    /\ IF FindName(k)
       THEN UNCHANGED vars
       ELSE /\ NumPanels < MaxPanels
            /\ uiPc' = "pop"
            /\ uiKind' = k
            /\ UNCHANGED <<options, cbSink, screen, kind, uiPanel, dropped, pollerVars,
                           ctxOwner, queue, processes, workerVars, viewVars>>

\* A pop that takes the layer off the stack and never drops its view.
UiPopLayer_Leak ==
    /\ uiPc = "pop"
    /\ screen # <<>>
    /\ screen' = SubSeq(screen, 1, Len(screen) - 1)
    /\ UNCHANGED <<options, cbSink, kind, uiPc, uiKind, uiPanel, dropped, pollerVars,
                   ctxOwner, queue, processes, workerVars, viewVars>>

\* while !screen.is_empty() { pop_layer() }: the popped view is dropped.
UiPopLayer ==
    /\ uiPc = "pop"
    /\ screen # <<>>
    /\ uiPanel' = screen[Len(screen)].panel
    /\ screen' = SubSeq(screen, 1, Len(screen) - 1)
    /\ uiPc' = "drop"
    /\ UNCHANGED <<options, cbSink, kind, uiKind, dropped, pollerVars, ctxOwner, queue,
                   processes, workerVars, viewVars>>

\* The stack is empty: go on to construct the new panel.
UiPopDone ==
    /\ uiPc = "pop"
    /\ screen = <<>>
    /\ uiPc' = "new"
    /\ uiPanel' = 0
    /\ UNCHANGED <<options, cbSink, screen, kind, uiKind, dropped, pollerVars, ctxOwner,
                   queue, processes, workerVars, viewVars>>

\* A Drop that keeps the guard of the stop-flag mutex until it returns.
DropSetStop_KeepsGuard ==
    /\ uiPc = "drop"
    /\ cvOwner[uiPanel] = "none"
    /\ stop' = [stop EXCEPT ![uiPanel] = TRUE]
    /\ cvOwner' = [cvOwner EXCEPT ![uiPanel] = "drop"]
    /\ uiPc' = "notify"
    /\ UNCHANGED <<options, cbSink, screen, kind, uiKind, uiPanel, dropped,
                   pollerPc, timedOut, ctxOwner, queue, processes, workerVars, viewVars>>

\* Drop: *self.cv.0.lock().unwrap() = true
DropSetStop ==
    /\ uiPc = "drop"
    /\ cvOwner[uiPanel] = "none"
    /\ stop' = [stop EXCEPT ![uiPanel] = TRUE]
    /\ uiPc' = "notify"
    /\ UNCHANGED <<options, cbSink, screen, kind, uiKind, uiPanel, dropped, cvOwner,
                   pollerPc, timedOut, ctxOwner, queue, processes, workerVars, viewVars>>

\* Drop: self.cv.1.notify_one() wakes the poller if it is blocked in the
\* wait; a notification that finds no waiter is lost.
DropNotify ==
    /\ uiPc = "notify"
    /\ IF pollerPc[uiPanel] = "wait"
       THEN /\ pollerPc' = [pollerPc EXCEPT ![uiPanel] = "woken"]
            /\ timedOut' = [timedOut EXCEPT ![uiPanel] = FALSE]
       ELSE UNCHANGED <<pollerPc, timedOut>>
    /\ uiPc' = "join"
    /\ UNCHANGED <<options, cbSink, screen, kind, uiKind, uiPanel, dropped, stop, cvOwner,
                   ctxOwner, queue, processes, workerVars, viewVars>>

\* A join that returns without waiting for the thread.
ThreadExited_Detached(i) == TRUE

\* JoinHandle::join returns once the thread's closure has returned.
ThreadExited(i) == pollerPc[i] = "done"

\* Drop: self.thread.take().unwrap().join() returns once the loop has
\* exited; then the panel's fields are released.
DropJoin ==
    /\ uiPc = "join"
    /\ ThreadExited(uiPanel)
    /\ uiPc' = "pop"
    /\ dropped' = [dropped EXCEPT ![uiPanel] = TRUE]
    /\ items' = EmptyItems
    /\ tableItems' = <<>>
    /\ focus' = 0
    /\ query_id' = None
    /\ group_by' = FALSE
    /\ UNCHANGED <<options, cbSink, screen, kind, uiKind, uiPanel, pollerVars, ctxOwner,
                   queue, processes, workerVars>>

\* ProcessesView::new up to view.start(): the options are read under the
\* (blocking) Session State lock, the view is built with an empty map and a
\* cleared stop flag, and the first refresh is submitted.
UiNew ==
    /\ uiPc = "new"
    /\ ctxOwner = NoOwner
    /\ Len(queue) < MaxQueue
    /\ LET p == NumPanels + 1 IN
        /\ uiPanel' = p
        /\ kind' = [kind EXCEPT ![p] = uiKind]
        /\ stop' = [stop EXCEPT ![p] = FALSE]
    /\ items' = EmptyItems
    /\ tableItems' = <<>>
    /\ focus' = 0
    /\ query_id' = None
    /\ group_by' = ~options.no_group_by
    /\ queue' = Append(queue, FirstRefresh(uiKind))
    /\ uiPc' = "start"
    /\ UNCHANGED <<options, cbSink, screen, uiKind, dropped, cvOwner, pollerPc, timedOut,
                   ctxOwner, processes, workerVars>>

\* ProcessesView::start: read the delay under the lock, spawn the loop.
UiStart ==
    /\ uiPc = "start"
    /\ ctxOwner = NoOwner
    /\ pollerPc' = [pollerPc EXCEPT ![uiPanel] = "try"]
    /\ uiPc' = "add_layer"
    /\ UNCHANGED <<options, cbSink, screen, kind, uiKind, uiPanel, dropped, stop, cvOwner,
                   timedOut, ctxOwner, queue, processes, workerVars, viewVars>>

\* add_fullscreen_layer(... .with_name(k) ...), the title read under the lock.
UiAddLayer ==
    /\ uiPc = "add_layer"
    /\ ctxOwner = NoOwner
    /\ screen' = Append(screen, [name |-> uiKind, panel |-> uiPanel])
    /\ uiPc' = "idle"
    /\ uiKind' = "none"
    /\ uiPanel' = 0
    /\ UNCHANGED <<options, cbSink, kind, dropped, pollerVars, ctxOwner, queue, processes,
                   workerVars, viewVars>>

\* ------------------------------------------------------------------ poller
\* A poller that waits for the Session State lock instead of trying it.
PollerTryLock_Blocking(i) ==
    /\ pollerPc[i] = "try"
    /\ ctxOwner = NoOwner
    /\ Len(queue) + Len(RefreshCommands(kind[i])) <= MaxQueue
    /\ ctxOwner' = PollerOwner(i)
    /\ pollerPc' = [pollerPc EXCEPT ![i] = "send"]
    /\ UNCHANGED <<options, cbSink, navVars, stop, cvOwner, timedOut, queue, processes,
                   workerVars, viewVars>>

\* if let Ok(mut context_locked) = context_copy.try_lock()
PollerTryLock(i) ==
    /\ pollerPc[i] = "try"
    /\ IF ctxOwner = NoOwner
       THEN /\ Len(queue) + Len(RefreshCommands(kind[i])) <= MaxQueue
            /\ ctxOwner' = PollerOwner(i)
            /\ pollerPc' = [pollerPc EXCEPT ![i] = "send"]
       ELSE /\ pollerPc' = [pollerPc EXCEPT ![i] = "lockcv"]
            /\ UNCHANGED ctxOwner
    /\ UNCHANGED <<options, cbSink, navVars, stop, cvOwner, timedOut, queue, processes,
                   workerVars, viewVars>>

\* A poller that empties the panel's map and table when it submits.
PollerSend_ClearsTable(i) ==
    /\ pollerPc[i] = "send"
    /\ queue' = queue \o RefreshCommands(kind[i])
    /\ ctxOwner' = NoOwner
    /\ pollerPc' = [pollerPc EXCEPT ![i] = "lockcv"]
    /\ items' = EmptyItems
    /\ tableItems' = <<>>
    /\ UNCHANGED <<options, cbSink, navVars, stop, cvOwner, timedOut, processes,
                   workerVars, focus, query_id, group_by>>

\* worker.send(UpdateProcessList); worker.send(UpdateSummary); the guard is
\* released at the end of the if-let block.
PollerSend(i) ==
    /\ pollerPc[i] = "send"
    /\ queue' = queue \o RefreshCommands(kind[i])
    /\ ctxOwner' = NoOwner
    /\ pollerPc' = [pollerPc EXCEPT ![i] = "lockcv"]
    /\ UNCHANGED <<options, cbSink, navVars, stop, cvOwner, timedOut, processes,
                   workerVars, viewVars>>

\* cv.0.lock().unwrap()
PollerLockCv(i) ==
    /\ pollerPc[i] = "lockcv"
    /\ cvOwner[i] = "none"
    /\ cvOwner' = [cvOwner EXCEPT ![i] = "poller"]
    /\ pollerPc' = [pollerPc EXCEPT ![i] = "enter_wait"]
    /\ UNCHANGED <<options, cbSink, navVars, stop, timedOut, ctxOwner, queue, processes,
                   workerVars, viewVars>>

\* cv.1.wait_timeout(guard, delay): the mutex is released and the thread
\* blocks, atomically; the flag is not looked at before blocking.
PollerWait(i) ==
    /\ pollerPc[i] = "enter_wait"
    /\ cvOwner' = [cvOwner EXCEPT ![i] = "none"]
    /\ pollerPc' = [pollerPc EXCEPT ![i] = "wait"]
    /\ UNCHANGED <<options, cbSink, navVars, stop, timedOut, ctxOwner, queue, processes,
                   workerVars, viewVars>>

\* The delay elapses.
PollerTimeout(i) ==
    /\ pollerPc[i] = "wait"
    /\ pollerPc' = [pollerPc EXCEPT ![i] = "woken"]
    /\ timedOut' = [timedOut EXCEPT ![i] = TRUE]
    /\ UNCHANGED <<options, cbSink, navVars, stop, cvOwner, ctxOwner, queue, processes,
                   workerVars, viewVars>>

\* Condvar waits may wake spuriously.
PollerSpuriousWake(i) ==
    /\ pollerPc[i] = "wait"
    /\ pollerPc' = [pollerPc EXCEPT ![i] = "woken"]
    /\ timedOut' = [timedOut EXCEPT ![i] = FALSE]
    /\ UNCHANGED <<options, cbSink, navVars, stop, cvOwner, ctxOwner, queue, processes,
                   workerVars, viewVars>>

\* wait_timeout returns with the mutex held again.
PollerReacquire(i) ==
    /\ pollerPc[i] = "woken"
    /\ cvOwner[i] = "none"
    /\ cvOwner' = [cvOwner EXCEPT ![i] = "poller"]
    /\ pollerPc' = [pollerPc EXCEPT ![i] = "check"]
    /\ UNCHANGED <<options, cbSink, navVars, stop, timedOut, ctxOwner, queue, processes,
                   workerVars, viewVars>>

\* A loop that goes round again whatever the flag says.
PollerCheckExit_Forever(i) ==
    /\ pollerPc[i] = "check"
    /\ cvOwner' = [cvOwner EXCEPT ![i] = "none"]
    /\ timedOut' = [timedOut EXCEPT ![i] = FALSE]
    /\ pollerPc' = [pollerPc EXCEPT ![i] = "try"]
    /\ UNCHANGED <<options, cbSink, navVars, stop, ctxOwner, queue, processes,
                   workerVars, viewVars>>

\* let exit = *result.0; if exit { break; }   (result is dropped either way)
PollerCheckExit(i) ==
    /\ pollerPc[i] = "check"
    /\ cvOwner' = [cvOwner EXCEPT ![i] = "none"]
    /\ timedOut' = [timedOut EXCEPT ![i] = FALSE]
    /\ pollerPc' = [pollerPc EXCEPT ![i] = IF stop[i] THEN "done" ELSE "try"]
    /\ UNCHANGED <<options, cbSink, navVars, stop, ctxOwner, queue, processes,
                   workerVars, viewVars>>

\* The loop's steps from its top into the timed wait.
PollerTick(i) ==
    \/ PollerTryLock(i)
    \/ PollerSend(i)
    \/ PollerLockCv(i)
    \/ PollerWait(i)

\* One step of panel i's background loop.
PollerStep(i) ==
    \/ PollerTick(i)
    \/ PollerTimeout(i)
    \/ PollerSpuriousWake(i)
    \/ PollerReacquire(i)
    \/ PollerCheckExit(i)

\* ------------------------------------------------------------ fetched rows
\* The initial (parent) query of each query: B is a shard query of A.
InitialOf(q) == IF q = "B" THEN "A" ELSE q

\* The cumulative event counters a row of elapsed time e reports.
EventsAt(e) == IF e = 0 THEN 0 ELSE e + MaxElapsed

\* One row of system.processes as the block holds it; ok is FALSE when a
\* column is missing or of another type, so that Block::get fails on it.
RawRow(q, e, good) ==
    [query_id |-> q,
     initial_query_id |-> InitialOf(q),
     is_initial_query |-> IF InitialOf(q) = q THEN 1 ELSE 0,
     elapsed |-> e,
     ProfileEvents |-> EventsAt(e),
     ok |-> good]

GoodRows == {RawRow(q, e, TRUE) : q \in QueryIds, e \in 1..MaxElapsed}

\* The row on which decoding fails; rows behind it are never read.
BadRow == RawRow("A", 0, FALSE)

\* Result sets of well-formed rows: distinct identities, at most MaxRows
\* rows.  The rows are listed in one order: the map they are inserted into
\* forgets the order of the rows of a block that decodes.
GoodBlocks ==
    UNION {{b \in [1..n -> GoodRows] :
              \A x, y \in 1..n :
                 x < y => Position(b[x].query_id) < Position(b[y].query_id)}
           : n \in 0..MaxRows}

\* What a process-list fetch can deliver: well-formed rows, possibly cut
\* short by a malformed one.
Blocks == GoodBlocks \cup {Append(b, BadRow) : b \in GoodBlocks}

\* The result sets the full-system specification lets the worker deliver.
CoarseBlocks == {b \in Blocks : \A n \in 1..Len(b) : b[n].query_id = "A" /\ b[n].elapsed <= 1}

\* The result sets of the kill-confirmation specification: two queries, of
\* which the selection can move from one to the other, or either of them
\* alone, so that a row can leave the table.
KeyBlocks ==
    {<<RawRow("A", 1, TRUE)>>,
     <<RawRow("A", 1, TRUE), RawRow("C", 0, TRUE)>>,
     <<RawRow("C", 0, TRUE)>>}

\* The result sets of the locking specification: no row, or one to select.
LockBlocks == {<<>>, <<RawRow("A", 1, TRUE)>>}

\* The result sets of the presentation specification: well-formed rows of
\* any of the queries, each at the least or the largest elapsed time, so
\* that rows tie and differ on the sort column.
ViewRows == {RawRow(q, e, TRUE) : q \in QueryIds, e \in {1, MaxElapsed}}

ViewBlocks ==
    UNION {{b \in [1..n -> ViewRows] :
              \A x, y \in 1..n :
                 x < y => Position(b[x].query_id) < Position(b[y].query_id)}
           : n \in 0..Len(QueryIdSeq)}

\* ---------------------------------------------------------- reconciliation
\* A reconciliation that fills the previous side from the fresh row.
NewQueryProcess_FreshAsPrev(row, prev_items) ==
    LET known == row.query_id \in DOMAIN prev_items IN
    [query_id |-> row.query_id,
     initial_query_id |-> row.initial_query_id,
     is_initial_query |-> (row.is_initial_query = 1),
     elapsed |-> row.elapsed,
     profile_events |-> row.ProfileEvents,
     prev_elapsed |-> IF known THEN Some(row.elapsed) ELSE None,
     prev_profile_events |-> IF known THEN Some(row.ProfileEvents) ELSE None]

\* The QueryProcess built from row i, with the prior snapshot's cumulative
\* fields when prev_items holds the same query_id.
NewQueryProcess(row, prev_items) ==
    LET known == row.query_id \in DOMAIN prev_items IN
    [query_id |-> row.query_id,
     initial_query_id |-> row.initial_query_id,
     is_initial_query |-> (row.is_initial_query = 1),
     elapsed |-> row.elapsed,
     profile_events |-> row.ProfileEvents,
     prev_elapsed |->
        IF known THEN Some(prev_items[row.query_id].elapsed) ELSE None,
     prev_profile_events |->
        IF known THEN Some(prev_items[row.query_id].profile_events) ELSE None]

\* HashMap::insert
Insert(m, k, v) ==
    [x \in DOMAIN m \cup {k} |-> IF x = k THEN v ELSE m[x]]

\* The loop over the rows of the block: it stops at the first row that does
\* not decode (the ? operator), with the rows before it already inserted.
RECURSIVE DecodeRows(_, _, _, _)
DecodeRows(block, i, prev_items, acc) ==
    IF i > Len(block)
    THEN [ok |-> TRUE, items |-> acc]
    ELSE IF ~block[i].ok
         THEN [ok |-> FALSE, items |-> acc]
         ELSE LET query_process == NewQueryProcess(block[i], prev_items) IN
              DecodeRows(block, i + 1, prev_items,
                         Insert(acc, query_process.query_id, query_process))

\* ------------------------------------------------------------------- table
\* TableViewItem::cmp for the Elapsed column: -1 Less, 0 Equal, 1 Greater.
Cmp(a, b) ==
    IF a.elapsed < b.elapsed THEN -1 ELSE IF a.elapsed > b.elapsed THEN 1 ELSE 0

\* One step of the stable sort, descending (sort_by(Elapsed, Greater)): x goes
\* behind every row that does not compare Less than it.
InsertSorted(sorted, x) ==
    LET k == Cardinality({n \in 1..Len(sorted) : Cmp(sorted[n], x) >= 0}) IN
    SubSeq(sorted, 1, k) \o <<x>> \o SubSeq(sorted, k + 1, Len(sorted))

RECURSIVE StableSort(_)
StableSort(rows) ==
    IF rows = <<>>
    THEN <<>>
    ELSE InsertSorted(StableSort(SubSeq(rows, 1, Len(rows) - 1)), rows[Len(rows)])

\* A filter that skips the rows of shard queries in a drill-down too.
Visible_GroupingFirst(its, qid, grouping) ==
    {q \in DOMAIN its :
        /\ ~(grouping /\ ~its[q].is_initial_query)
        /\ qid # None => its[q].initial_query_id = qid[1]}

\* The query_ids update_table keeps: the drill-down filter if one is set,
\* else the initial queries when grouping, else every row.
Visible(its, qid, grouping) ==
    IF qid # None
    THEN {q \in DOMAIN its : its[q].initial_query_id = qid[1]}
    ELSE {q \in DOMAIN its : ~(grouping /\ ~its[q].is_initial_query)}

\* The orders in which iterating the HashMap can yield the keys S.
IterationOrders(S) ==
    {o \in [1..Cardinality(S) -> S] :
        \A x, y \in 1..Cardinality(S) : x # y => o[x] # o[y]}

\* An equality of rows by all their fields.
SameProcess_ByValue(a, b) == a = b

\* PartialEq for QueryProcess: equality is by query_id alone.
SameProcess(a, b) == a.query_id = b.query_id

\* TableView::set_items_stable, then set_selected_row(0) if the table was
\* empty: the rows are sorted, and the focus follows the selected row's
\* identity when it is among the new rows, else the first pushed row.
SetItems(old, oldFocus, table_items) ==
    LET sorted == StableSort(table_items)
        wasEmpty == old = <<>>
        selected == IF oldFocus < Len(old) THEN Some(old[oldFocus + 1]) ELSE None
        found == IF selected = None THEN {}
                 ELSE {n \in 1..Len(table_items) : SameProcess(table_items[n], selected[1])}
        location == IF found = {} THEN 1 ELSE CHOOSE n \in found : TRUE
        row == IF table_items = <<>> THEN oldFocus
               ELSE (CHOOSE n \in 1..Len(sorted) :
                        SameProcess(sorted[n], table_items[location])) - 1
    IN [tableItems |-> sorted, focus |-> IF wasEmpty THEN 0 ELSE row]

\* update_table: every (table, focus) it can leave, one per iteration order.
UpdateTable(its, qid, grouping, old, oldFocus) ==
    {SetItems(old, oldFocus, [n \in 1..Len(o) |-> its[o[n]]]) :
        o \in IterationOrders(Visible(its, qid, grouping))}

\* -------------------------------------------------------- update_processes
\* A try_lock that is taken to have succeeded whoever holds the mutex.
ContextTryLock_Always == TRUE

\* self.context.try_lock() succeeds when nobody holds the mutex.
ContextTryLock == ctxOwner = NoOwner

\* A map that keeps its records when it is handed over.
TakenItems_Kept == items

\* take(&mut self.items) leaves the default, an empty map, in self.items.
TakenItems == EmptyItems

\* A slot that keeps the result set that is read out of it.
TakenProcesses_Kept == processes

\* processes.take() leaves None in the slot of the Session State.
TakenProcesses == None

\* ProcessesView::update_processes, called on the UI thread for the
\* installed processes panel.
UpdateProcesses ==
    /\ uiPc = "idle"
    /\ FindName("processes")
    /\ IF ~ContextTryLock
       THEN \* try_lock failed: return Ok(())
            UNCHANGED <<items, tableItems, focus, processes>>
       ELSE LET prev_items == items
                block == processes
                decoded == IF block = None
                           THEN [ok |-> TRUE, items |-> TakenItems]
                           ELSE DecodeRows(block[1], 1, prev_items, TakenItems)
            IN /\ processes' = TakenProcesses
               /\ items' = decoded.items
               /\ IF decoded.ok
                  THEN \E t \in UpdateTable(decoded.items, query_id, group_by,
                                            tableItems, focus) :
                          /\ tableItems' = t.tableItems
                          /\ focus' = t.focus
                  ELSE UNCHANGED <<tableItems, focus>>
    /\ UNCHANGED <<options, cbSink, navVars, pollerVars, ctxOwner, queue, workerVars,
                   query_id, group_by>>

\* ---------------------------------------------------------------- on_event
\* self.table.item() and borrow_item: the selected row, None when the table
\* has no row at the focus (an empty table).
TableItem ==
    IF focus < Len(tableItems) THEN Some(tableItems[focus + 1]) ELSE None

\* A Left that clears the filter and leaves the list as it is.
KeyLeft_KeepsList ==
    /\ uiPc = "idle"
    /\ FindName("processes")
    /\ query_id' = None
    /\ UNCHANGED <<options, cbSink, navVars, pollerVars, ctxOwner, queue, processes,
                   workerVars, items, tableItems, focus, group_by>>

\* Key::Left: self.query_id = None; self.update_table()
KeyLeft ==
    /\ uiPc = "idle"
    /\ FindName("processes")
    /\ query_id' = None
    /\ \E t \in UpdateTable(items, None, group_by, tableItems, focus) :
          /\ tableItems' = t.tableItems
          /\ focus' = t.focus
    /\ UNCHANGED <<options, cbSink, navVars, pollerVars, ctxOwner, queue, processes,
                   workerVars, items, group_by>>

\* Key::Right: ignored without a selected row; else the selected row's
\* query_id becomes the drill-down identity and the table is re-derived.
KeyRight ==
    /\ uiPc = "idle"
    /\ FindName("processes")
    /\ IF TableItem = None
       THEN UNCHANGED vars
       ELSE /\ query_id' = Some(TableItem[1].query_id)
            /\ \E t \in UpdateTable(items, Some(TableItem[1].query_id), group_by,
                                    tableItems, focus) :
                  /\ tableItems' = t.tableItems
                  /\ focus' = t.focus
            /\ UNCHANGED <<options, cbSink, navVars, pollerVars, ctxOwner, queue,
                           processes, workerVars, items, group_by>>

\* Char('k'): the table's Key::Up moves the focus one row up, if there is one.
KeyUp ==
    /\ uiPc = "idle"
    /\ FindName("processes")
    /\ focus' = IF focus > 0 THEN focus - 1 ELSE focus
    /\ UNCHANGED <<options, cbSink, navVars, pollerVars, ctxOwner, queue, processes,
                   workerVars, items, tableItems, query_id, group_by>>

\* Char('j'): the table's Key::Down moves the focus one row down, if there is one.
KeyDown ==
    /\ uiPc = "idle"
    /\ FindName("processes")
    /\ focus' = IF focus + 1 < Len(tableItems) THEN focus + 1 ELSE focus
    /\ UNCHANGED <<options, cbSink, navVars, pollerVars, ctxOwner, queue, processes,
                   workerVars, items, tableItems, query_id, group_by>>

\* WorkerEvent variants that carry data, as the text of the variant.
Command(name, arg) == name \o "(" \o arg \o ")"

KillQuery(q) == Command("KillQuery", q)

\* The original_query column of a row: each query has a text of its own.
OriginalQuery(row) == "query " \o row.query_id

\* The commands pending in the channel that no refresh submitted.
Submitted ==
    Cardinality({n \in 1..Len(queue) :
                    \A k \in Kinds : \A m \in 1..Len(RefreshCommands(k)) :
                        queue[n] # RefreshCommands(k)[m]})

\* The keys that submit a command for the selected row, and the command.
CommandKeys == {"C", "R", "M", "L", "e", "E"}

WorkerEventOf(c, row) ==
    CASE c = "C" -> Command("ShowQueryFlameGraph(CPU)", row.query_id)
      [] c = "R" -> Command("ShowQueryFlameGraph(Real)", row.query_id)
      [] c = "M" -> Command("ShowQueryFlameGraph(Memory)", row.query_id)
      [] c = "L" -> Command("ShowLiveQueryFlameGraph", row.query_id)
      [] c = "e" -> Command("ExplainPlan", OriginalQuery(row))
      [] c = "E" -> Command("ExplainPipeline", OriginalQuery(row))

\* Char('C'), 'R', 'M', 'L', 'e', 'E': ignored without a selected row; else
\* the Session State is locked (blocking) and the command is sent.
KeyCommand(c) ==
    /\ uiPc = "idle"
    /\ FindName("processes")
    /\ IF TableItem = None
       THEN UNCHANGED vars
       ELSE /\ ctxOwner = NoOwner
            /\ Len(queue) < MaxQueue
            /\ Submitted < MaxSubmitted
            /\ queue' = Append(queue, WorkerEventOf(c, TableItem[1]))
            /\ UNCHANGED <<options, cbSink, navVars, pollerVars, ctxOwner, processes,
                           workerVars, viewVars>>

\* The keys that schedule a closure on the UI thread, and the name of the
\* layer the closure adds.
ClosureKeys == {"D", "K", "l"}

LayerOf(c) ==
    CASE c = "D" -> "process"
      [] c = "K" -> "kill"
      [] c = "l" -> "query_log"

\* The dialogs on the stack.
NumDialogs == Cardinality({n \in 1..Len(screen) : screen[n].panel = 0})

\* A key that schedules its closure without looking for a selected row.
KeyClosure_Unguarded(c) ==
    /\ uiPc = "idle"
    /\ FindName("processes")
    /\ ctxOwner = NoOwner
    /\ Len(cbSink) + NumDialogs < MaxDialogs
    /\ cbSink' = Append(cbSink,
                        [key |-> c,
                         query_id |-> IF TableItem = None THEN ""
                                      ELSE TableItem[1].query_id])
    /\ UNCHANGED <<options, navVars, pollerVars, ctxOwner, queue, processes,
                   workerVars, viewVars>>

\* Char('D'), 'K', 'l': ignored without a selected row; else the row's data
\* is copied into a closure that is sent to cb_sink under the (blocking)
\* Session State lock.  Nothing else happens at the keypress.
KeyClosure(c) ==
    /\ uiPc = "idle"
    /\ FindName("processes")
    /\ IF TableItem = None
       THEN UNCHANGED vars
       ELSE /\ ctxOwner = NoOwner
            /\ Len(cbSink) + NumDialogs < MaxDialogs
            /\ cbSink' = Append(cbSink,
                                [key |-> c, query_id |-> TableItem[1].query_id])
            /\ UNCHANGED <<options, navVars, pollerVars, ctxOwner, queue, processes,
                           workerVars, viewVars>>

\* The UI thread runs the next scheduled closure: siv.add_layer(Dialog ...).
RunCallback ==
    /\ uiPc = "idle"
    /\ cbSink # <<>>
    /\ screen' = Append(screen,
                        [name |-> LayerOf(Head(cbSink).key), panel |-> 0,
                         query_id |-> Head(cbSink).query_id])
    /\ cbSink' = Tail(cbSink)
    /\ UNCHANGED <<options, kind, uiPc, uiKind, uiPanel, dropped, pollerVars,
                   ctxOwner, queue, processes, workerVars, viewVars>>

\* The kill dialog is the top layer.
KillDialogOnTop ==
    screen # <<>> /\ screen[Len(screen)].name = "kill"

\* A Cancel button that submits the kill as well.
DialogCancel_Kills ==
    /\ uiPc = "idle"
    /\ KillDialogOnTop
    /\ ctxOwner = NoOwner
    /\ Len(queue) < MaxQueue
    /\ Submitted < MaxSubmitted
    /\ queue' = Append(queue, KillQuery(screen[Len(screen)].query_id))
    /\ screen' = SubSeq(screen, 1, Len(screen) - 1)
    /\ UNCHANGED <<options, cbSink, kind, uiPc, uiKind, uiPanel, dropped, pollerVars,
                   ctxOwner, processes, workerVars, viewVars>>

\* An affirmative button that kills the row that is selected when it is
\* pressed (the dialog's query when no row is).
DialogYes_KillsSelected ==
    /\ uiPc = "idle"
    /\ KillDialogOnTop
    /\ ctxOwner = NoOwner
    /\ Len(queue) < MaxQueue
    /\ Submitted < MaxSubmitted
    /\ queue' = Append(queue,
                       KillQuery(IF TableItem # None
                                 THEN TableItem[1].query_id
                                 ELSE screen[Len(screen)].query_id))
    /\ screen' = SubSeq(screen, 1, Len(screen) - 1)
    /\ UNCHANGED <<options, cbSink, kind, uiPc, uiKind, uiPanel, dropped, pollerVars,
                   ctxOwner, processes, workerVars, viewVars>>

\* button("Yes, I'm sure"): the kill of the query the dialog was built for is
\* sent under the (blocking) Session State lock, and the dialog is popped.
DialogYes ==
    /\ uiPc = "idle"
    /\ KillDialogOnTop
    /\ ctxOwner = NoOwner
    /\ Len(queue) < MaxQueue
    /\ Submitted < MaxSubmitted
    /\ queue' = Append(queue, KillQuery(screen[Len(screen)].query_id))
    /\ screen' = SubSeq(screen, 1, Len(screen) - 1)
    /\ UNCHANGED <<options, cbSink, kind, uiPc, uiKind, uiPanel, dropped, pollerVars,
                   ctxOwner, processes, workerVars, viewVars>>

\* button("Cancel"): the dialog is popped.
DialogCancel ==
    /\ uiPc = "idle"
    /\ KillDialogOnTop
    /\ screen' = SubSeq(screen, 1, Len(screen) - 1)
    /\ UNCHANGED <<options, cbSink, kind, uiPc, uiKind, uiPanel, dropped, pollerVars,
                   ctxOwner, queue, processes, workerVars, viewVars>>

\* ------------------------------------------------------------------ worker
\* The worker thread takes the next command off its channel.
WorkerRecv ==
    /\ workerPc = "idle"
    /\ queue # <<>>
    /\ workerCmd' = Head(queue)
    /\ queue' = Tail(queue)
    /\ workerPc' = "exec"
    /\ UNCHANGED <<options, cbSink, navVars, pollerVars, ctxOwner, processes, viewVars>>

\* A command whose result is not the process list.
WorkerExecOther ==
    /\ workerPc = "exec"
    /\ workerCmd # "UpdateProcessList"
    /\ workerPc' = "idle"
    /\ workerCmd' = "none"
    /\ UNCHANGED <<options, cbSink, navVars, pollerVars, ctxOwner, queue, processes,
                   viewVars>>

\* The fetch failed: logged, the slot is left as it is.
WorkerFail ==
    /\ workerPc = "exec"
    /\ workerCmd = "UpdateProcessList"
    /\ workerPc' = "idle"
    /\ workerCmd' = "none"
    /\ UNCHANGED <<options, cbSink, navVars, pollerVars, ctxOwner, queue, processes,
                   viewVars>>

\* The fetch succeeded: the worker locks the Session State ...
WorkerLock ==
    /\ workerPc = "exec"
    /\ workerCmd = "UpdateProcessList"
    /\ ctxOwner = NoOwner
    /\ ctxOwner' = WorkerOwner
    /\ workerPc' = "store"
    /\ UNCHANGED <<options, cbSink, navVars, pollerVars, queue, processes, workerCmd,
                   viewVars>>

\* ... and overwrites the processes slot with a result set out of S.
WorkerStore(S) ==
    /\ workerPc = "store"
    /\ \E b \in S : processes' = Some(b)
    /\ ctxOwner' = NoOwner
    /\ workerPc' = "idle"
    /\ workerCmd' = "none"
    /\ UNCHANGED <<options, cbSink, navVars, pollerVars, queue, viewVars>>

\* ---------------------------------------------------------- specifications
\* The whole system: navigation between panels, teardown, pollers, worker,
\* reconciliation; the worker delivers the coarse result sets.
Next ==
    \/ \E k \in Kinds : UiShow(k)
    \/ UiPopLayer
    \/ UiPopDone
    \/ DropSetStop
    \/ DropNotify
    \/ DropJoin
    \/ UiNew
    \/ UiStart
    \/ UiAddLayer
    \/ \E i \in PanelIds : PollerStep(i)
    \/ WorkerRecv
    \/ WorkerExecOther
    \/ WorkerFail
    \/ WorkerLock
    \/ WorkerStore(CoarseBlocks)
    \/ UpdateProcesses

Spec == Init /\ [][Next]_vars

\* One poll interval of the processes panel: the panel is installed, its
\* poller submits a refresh and stays in the timed wait (the delay does not
\* elapse), the worker delivers result sets of every shape, and the UI thread
\* reconciles them.
NextData ==
    \/ UiShow("processes")
    \/ UiPopDone
    \/ UiNew
    \/ UiStart
    \/ UiAddLayer
    \/ \E i \in PanelIds : PollerTick(i)
    \/ WorkerRecv
    \/ WorkerExecOther
    \/ WorkerFail
    \/ WorkerLock
    \/ WorkerStore(Blocks)
    \/ UpdateProcesses

SpecData == Init /\ [][NextData]_vars

\* The threads of the system without the rows: navigation, teardown, the
\* pollers and the worker, which delivers result sets without rows; the UI
\* thread reconciles nothing.
NoRows == {<<>>}

NextLive ==
    \/ \E k \in Kinds : UiShow(k)
    \/ UiPopLayer
    \/ UiPopDone
    \/ DropSetStop
    \/ DropNotify
    \/ DropJoin
    \/ UiNew
    \/ UiStart
    \/ UiAddLayer
    \/ \E i \in PanelIds : PollerStep(i)
    \/ WorkerRecv
    \/ WorkerExecOther
    \/ WorkerFail
    \/ WorkerLock
    \/ WorkerStore(NoRows)

\* Fair scheduling: every thread that can take a step eventually takes one,
\* and a timed wait ends when its delay has elapsed.  A spurious wakeup may
\* happen and is never owed.
PollerRuns(i) ==
    \/ PollerTick(i)
    \/ PollerTimeout(i)
    \/ PollerReacquire(i)
    \/ PollerCheckExit(i)

DropRuns ==
    \/ DropSetStop
    \/ DropNotify
    \/ DropJoin

WorkerRuns ==
    \/ WorkerRecv
    \/ WorkerExecOther
    \/ WorkerFail
    \/ WorkerLock
    \/ WorkerStore(NoRows)

Fairness ==
    /\ \A i \in PanelIds : WF_vars(PollerRuns(i))
    /\ WF_vars(DropRuns)
    /\ WF_vars(WorkerRuns)

SpecLive == Init /\ [][NextLive]_vars /\ Fairness

\* The presentation of the processes panel: the panel is installed, result
\* sets of up to all the queries arrive within one poll interval, and the
\* operator moves the selection and drills down and up between refreshes.
NextView ==
    \/ UiShow("processes")
    \/ UiPopDone
    \/ UiNew
    \/ UiStart
    \/ UiAddLayer
    \/ \E i \in PanelIds : PollerTick(i)
    \/ WorkerRecv
    \/ WorkerExecOther
    \/ WorkerFail
    \/ WorkerLock
    \/ WorkerStore(ViewBlocks)
    \/ UpdateProcesses
    \/ KeyLeft
    \/ KeyRight
    \/ KeyUp
    \/ KeyDown

SpecView == Init /\ [][NextView]_vars

\* The row actions of the processes panel: the panel is installed, the
\* result of its first refresh arrives (the poller is spawned and has not
\* ticked yet), and the operator presses the row keys and answers the
\* dialogs while the worker executes what was submitted.
NextKeys ==
    \/ UiShow("processes")
    \/ UiPopDone
    \/ UiNew
    \/ UiStart
    \/ UiAddLayer
    \/ WorkerRecv
    \/ WorkerExecOther
    \/ WorkerFail
    \/ WorkerLock
    \/ WorkerStore(CoarseBlocks)
    \/ UpdateProcesses
    \/ KeyRight
    \/ \E c \in CommandKeys : KeyCommand(c)
    \/ \E c \in ClosureKeys : KeyClosure(c)
    \/ RunCallback
    \/ DialogYes
    \/ DialogCancel

SpecKeys == Init /\ [][NextKeys]_vars

\* The kill confirmation: the panel is installed, its poller asks for
\* refreshes, results arrive and are reconciled, and the operator moves the
\* selection, presses K, and answers the dialogs while the worker executes
\* what was submitted.
NextKill ==
    \/ UiShow("processes")
    \/ UiPopDone
    \/ UiNew
    \/ UiStart
    \/ UiAddLayer
    \/ \E i \in PanelIds : PollerTick(i)
    \/ WorkerRecv
    \/ WorkerExecOther
    \/ WorkerFail
    \/ WorkerLock
    \/ WorkerStore(KeyBlocks)
    \/ UpdateProcesses
    \/ KeyUp
    \/ KeyDown
    \/ KeyClosure("K")
    \/ RunCallback
    \/ DialogYes
    \/ DialogCancel

SpecKill == Init /\ [][NextKill]_vars

\* The threads that take the locks: navigation and teardown, the pollers'
\* loops in full, the worker, reconciliation, and the row keys that send a
\* command under the blocking Session State lock.
NextLock ==
    \/ \E k \in Kinds : UiShow(k)
    \/ UiPopLayer
    \/ UiPopDone
    \/ DropSetStop
    \/ DropNotify
    \/ DropJoin
    \/ UiNew
    \/ UiStart
    \/ UiAddLayer
    \/ \E i \in PanelIds : PollerStep(i)
    \/ WorkerRecv
    \/ WorkerExecOther
    \/ WorkerFail
    \/ WorkerLock
    \/ WorkerStore(LockBlocks)
    \/ UpdateProcesses
    \/ KeyCommand("C")

SpecLock == Init /\ [][NextLock]_vars

\* ------------------------------------------------------------------ claims
\* A view named k is a layer of the stack.
Installed(k) == \E n \in 1..Len(screen) : screen[n].name = k

\* Every row of the block decodes.
AllDecode(block) == \A n \in 1..Len(block) : block[n].ok

\* The identities of the rows of the block that decode.
BlockIds(block) == {block[n].query_id : n \in {m \in 1..Len(block) : block[m].ok}}

\* C1: once Drop has raised the stop signal (flag set, notify_one called) and
\* waits in join, the poller is never blocked in the timed wait, where only
\* the timeout (or a spurious wakeup) can release it.
C1_StopInterruptsWait ==
    \A i \in PanelIds : (uiPc = "join" /\ uiPanel = i) => pollerPc[i] # "wait"

\* C2: once a panel's stop flag is raised, its background loop submits no
\* further refresh command.
C2_NoRefreshAfterStop ==
    [][\A i \in PanelIds : stop[i] => ~PollerSend(i)]_vars

\* C3: once Drop of a panel has returned, its background loop has exited and
\* takes no step ever after.
C3_JoinOnDrop ==
    [][\A i \in PanelIds :
          dropped'[i] => (pollerPc'[i] = "done" /\ ~PollerStep(i))]_vars

\* Drop of a panel has just returned to the loop that pops the layers.
C3_TornDown ==
    \E i \in PanelIds : dropped[i] /\ stop[i] /\ uiPanel = i /\ uiPc = "pop"

\* C4: show(k) while a view named k is on the stack changes nothing: no layer
\* popped, no panel constructed, no poller started, no command submitted.
C4_ShowIdempotent ==
    [][\A k \in Kinds : (Installed(k) /\ UiShow(k)) => UNCHANGED vars]_vars

\* A panel is installed with its poller running, the UI thread is ready for
\* a second show of the same panel, and a further panel could be built.
C4_ShowOnInstalled ==
    \E i \in PanelIds :
        /\ OnScreen(i)
        /\ Installed(kind[i])
        /\ PollerLive(i)
        /\ uiPc = "idle"
        /\ NumPanels < MaxPanels

\* C5: at no moment do two poller loops run, and a running loop belongs to
\* the installed panel or to the one the UI thread is dropping or building.
C5_OneLivePoller ==
    /\ Cardinality({i \in PanelIds : PollerLive(i)}) <= 1
    /\ \A i \in PanelIds : PollerLive(i) => (OnScreen(i) \/ uiPanel = i)

\* After a navigation to another panel: the discarded panel is torn down and
\* the new panel is installed with its poller running.
C5_Renavigated ==
    \E i, j \in PanelIds :
        /\ i # j
        /\ dropped[i]
        /\ ~PollerLive(i)
        /\ OnScreen(j)
        /\ PollerLive(j)
        /\ uiPc = "idle"

\* C6: a reconciliation pass whose block decodes installs, for every row, a
\* record with the row's cumulative values as current and, as previous, the
\* cumulative values the map held for that identity before the pass; a
\* record of an identity the map did not hold has an empty previous.
C6_PreviousCarried ==
    [][(UpdateProcesses /\ ctxOwner = NoOwner /\ processes # None
            /\ AllDecode(processes[1]))
        => \A n \in 1..Len(processes[1]) :
              LET row == processes[1][n]
                  q == row.query_id
              IN /\ q \in DOMAIN items'
                 /\ items'[q].elapsed = row.elapsed
                 /\ items'[q].profile_events = row.ProfileEvents
                 /\ IF q \in DOMAIN items
                    THEN /\ items'[q].prev_elapsed = Some(items[q].elapsed)
                         /\ items'[q].prev_profile_events
                               = Some(items[q].profile_events)
                    ELSE /\ items'[q].prev_elapsed = None
                         /\ items'[q].prev_profile_events = None]_vars

\* After a second reconciliation: one record carries a previous value that
\* differs from its current one, another is seen for the first time.
C6_CarriedForward ==
    \E q, r \in DOMAIN items :
        /\ items[q].prev_elapsed # None
        /\ items[q].prev_elapsed[1] # items[q].elapsed
        /\ items[r].prev_elapsed = None

\* C7: a reconciliation pass over a fetched block leaves in the map no
\* identity that is not a row of the block, and, when the block decodes,
\* exactly the identities of the block.
C7_KeysOfLatest ==
    [][(UpdateProcesses /\ ctxOwner = NoOwner /\ processes # None)
        => /\ DOMAIN items' \subseteq BlockIds(processes[1])
           /\ AllDecode(processes[1]) => DOMAIN items' = BlockIds(processes[1])]_vars

\* The pass is about to run on a block that decodes and lacks an identity
\* the map holds.
C7_Disappearing ==
    /\ uiPc = "idle"
    /\ Installed("processes")
    /\ ctxOwner = NoOwner
    /\ processes # None
    /\ AllDecode(processes[1])
    /\ processes[1] # <<>>
    /\ \E q \in DOMAIN items : q \notin BlockIds(processes[1])

\* C8: a reconciliation pass that finds the processes slot empty leaves the
\* reconciled map and the presentation list as they were.
C8_AbsentSlotRetains ==
    [][(UpdateProcesses /\ ctxOwner = NoOwner /\ processes = None)
        => (items' = items /\ tableItems' = tableItems)]_vars

\* C9: a reconciliation pass over a block with a row that does not decode
\* leaves the reconciled map and the presentation list as they were.
C9_DecodeFailureRetains ==
    [][(UpdateProcesses /\ ctxOwner = NoOwner /\ processes # None
            /\ ~AllDecode(processes[1]))
        => (items' = items /\ tableItems' = tableItems)]_vars

\* C10: update_processes is never made to wait for the Session State lock,
\* and when another thread holds the lock it returns with the reconciled
\* map, the presentation list and the processes slot unchanged.
C10_ContentionSkips ==
    [][/\ (uiPc = "idle" /\ Installed("processes")) => ENABLED UpdateProcesses
       /\ (UpdateProcesses /\ ctxOwner # NoOwner) => UNCHANGED vars]_vars

\* update_processes can be called while a poller holds the lock, the map
\* holds records and a fetched block waits in the slot.
C10_Contended ==
    /\ uiPc = "idle"
    /\ Installed("processes")
    /\ \E i \in PanelIds : ctxOwner = PollerOwner(i)
    /\ items # EmptyItems
    /\ processes # None

\* The number of commands c pending in the worker's channel.
Pending(c) == Cardinality({n \in 1..Len(queue) : queue[n] = c})

\* C11: a poll tick only tries the Session State lock.  Under contention the
\* loop is never blocked, submits nothing and goes on to the timed wait; it
\* submits only while it holds the lock, and then exactly the panel's refresh
\* commands.
C11_PollerSkipsOnContention ==
    [][\A i \in PanelIds :
          /\ (pollerPc[i] = "try" /\ ctxOwner # NoOwner) => ENABLED PollerStep(i)
          /\ (PollerStep(i) /\ pollerPc[i] = "try" /\ ctxOwner # NoOwner)
                => (queue' = queue /\ ctxOwner' = ctxOwner /\ pollerPc'[i] = "lockcv")
          /\ (PollerStep(i) /\ pollerPc[i] = "try" /\ ctxOwner = NoOwner)
                => (queue' = queue /\ ctxOwner' = PollerOwner(i))
          /\ (PollerStep(i) /\ ctxOwner = PollerOwner(i))
                => (queue' = queue \o RefreshCommands(kind[i])
                    /\ ctxOwner' = NoOwner /\ pollerPc'[i] = "lockcv")
          /\ (PollerStep(i) /\ queue' # queue) => ctxOwner = PollerOwner(i)]_vars

\* A poll tick begins while the worker holds the Session State lock and
\* commands are pending.
C11_TickUnderContention ==
    \E i \in PanelIds :
        pollerPc[i] = "try" /\ ctxOwner = WorkerOwner /\ queue # <<>>

\* C12: while one processes panel is all that was ever constructed, at most
\* one of its process-list refreshes is pending in the worker's channel.
C12_OneRefreshOutstanding ==
    Cardinality({i \in PanelIds : kind[i] = "processes"}) <= 1
        => Pending("UpdateProcessList") <= 1

\* The identities of the rows of a list.
RowIds(rows) == {rows[n].query_id : n \in 1..Len(rows)}

\* The rows of the map the active filter asks for: those whose parent is the
\* drill-down identity if one is set, else the top-level rows when grouping,
\* else all rows.
Filtered(its, qid, grouping) ==
    IF qid # None
    THEN {q \in DOMAIN its : its[q].initial_query_id = qid[1]}
    ELSE IF grouping
         THEN {q \in DOMAIN its : its[q].is_initial_query}
         ELSE DOMAIN its

\* The list holds each row of the filter of the map once, as the map has it.
ListsExactly(rows, its, qid, grouping) ==
    /\ RowIds(rows) = Filtered(its, qid, grouping)
    /\ Len(rows) = Cardinality(Filtered(its, qid, grouping))
    /\ \A n \in 1..Len(rows) : rows[n] = its[rows[n].query_id]

\* C13: with result sets that decode, the presentation list is at all times
\* exactly the filter of the map: the rows whose parent is the drill-down
\* identity if one is set, else the top-level rows when grouping, else all
\* rows.  With rows A, B (parent A) and C in the map, drilling into A lists
\* {A, B} with grouping on or off, and grouping without drill-down {A, C}.
C13_ListIsFilterOfMap ==
    /\ ListsExactly(tableItems, items, query_id, group_by)
    /\ (DOMAIN items = {"A", "B", "C"} /\ query_id = Some("A"))
          => RowIds(tableItems) = {"A", "B"}
    /\ (DOMAIN items = {"A", "B", "C"} /\ query_id = None /\ group_by)
          => RowIds(tableItems) = {"A", "C"}

\* With A, B and C in the map and grouping on, the operator has drilled
\* into A.
C13_DrilledIntoA ==
    /\ DOMAIN items = {"A", "B", "C"}
    /\ group_by
    /\ query_id = Some("A")
    /\ RowIds(tableItems) = {"A", "B"}

\* C14: the displayed order is a function of the rows and of the sort
\* column and direction: the map, under the active filter, has one
\* presentation, whatever the order in which the map yields its rows.
C14_OrderDetermined ==
    Cardinality({t.tableItems :
                    t \in UpdateTable(items, query_id, group_by, tableItems, focus)})
        = 1

\* The number of commands c in a channel.
PendingIn(channel, c) == Cardinality({n \in 1..Len(channel) : channel[n] = c})

\* The top layer is the kill dialog built for query q.
AsksToKill(q) ==
    /\ screen # <<>>
    /\ screen[Len(screen)].name = "kill"
    /\ screen[Len(screen)].query_id = q

\* C15: a KillQuery enters the worker's channel only by the affirmative
\* button of a kill dialog that is open for that query; pressing K submits
\* nothing and opens no dialog by itself (it schedules the closure that
\* will), and Cancel submits nothing.
C15_KillOnlyOnAffirmation ==
    [][/\ \A q \in QueryIds :
             PendingIn(queue', KillQuery(q)) > PendingIn(queue, KillQuery(q))
                => /\ DialogYes
                   /\ AsksToKill(q)
                   /\ queue' = Append(queue, KillQuery(q))
       /\ KeyClosure("K") => (queue' = queue /\ screen' = screen)
       /\ DialogCancel => queue' = queue
       /\ (\E q \in QueryIds : ~AsksToKill(q) /\ AsksToKill(q)')
             => (RunCallback /\ Head(cbSink).key = "K")]_vars

\* A kill has been affirmed: its command is pending and its dialog is gone.
C15_KillSubmitted ==
    \E q \in QueryIds :
        /\ PendingIn(queue, KillQuery(q)) = 1
        /\ ~AsksToKill(q)
        /\ cbSink = <<>>

\* C16: without a selected row each row key (Right, D, C, R, M, L, e, E, K,
\* l) returns at once, whoever holds the Session State lock, and changes
\* nothing: no command, no closure, the filter and the list as they were.
C16_NoSelectionNoEffect ==
    [][(uiPc = "idle" /\ Installed("processes") /\ TableItem = None)
        => /\ ENABLED KeyRight /\ (KeyRight => UNCHANGED vars)
           /\ \A c \in CommandKeys :
                 ENABLED KeyCommand(c) /\ (KeyCommand(c) => UNCHANGED vars)
           /\ \A c \in ClosureKeys :
                 ENABLED KeyClosure(c) /\ (KeyClosure(c) => UNCHANGED vars)]_vars

\* The panel is installed with an empty table while the worker holds the
\* Session State lock.
C16_NothingSelected ==
    /\ uiPc = "idle"
    /\ Installed("processes")
    /\ tableItems = <<>>
    /\ TableItem = None
    /\ ctxOwner = WorkerOwner

\* C17: a step of a poller's background loop leaves the panel's map, table,
\* selection, drill-down filter and grouping flag as they were, and also the
\* view stack, the scheduled closures, the processes slot and the stop flag
\* (which it only reads); what it changes is its own position, the locks it
\* takes and the worker's channel.
C17_PollerLeavesViewAlone ==
    [][\A i \in PanelIds :
          PollerStep(i)
             => UNCHANGED <<items, tableItems, focus, query_id, group_by,
                            screen, kind, cbSink, processes, stop, dropped>>]_vars

\* A poller holds the Session State lock, about to submit, while the panel
\* shows rows.
C17_PollerBesideRows ==
    \E i \in PanelIds :
        /\ pollerPc[i] = "send"
        /\ ctxOwner = PollerOwner(i)
        /\ items # EmptyItems
        /\ tableItems # <<>>

\* Running (0), Stopping (1: the flag is raised), Stopped (2: the loop has
\* exited).
PollerState(pc, flag) == IF pc = "done" THEN 2 ELSE IF flag THEN 1 ELSE 0

\* C18: under fair scheduling, once the stop flag of a panel is raised its
\* loop exits and Drop returns; a poller only moves Running -> Stopping ->
\* Stopped, one stage at a time, and a raised flag is never reset.
C18_TeardownCompletes ==
    /\ \A i \in PanelIds : stop[i] ~> (pollerPc[i] = "done" /\ dropped[i])
    /\ [][\A i \in PanelIds :
             /\ stop[i] => stop'[i]
             /\ PollerState(pollerPc'[i], stop'[i])
                   \in {PollerState(pollerPc[i], stop[i]),
                        PollerState(pollerPc[i], stop[i]) + 1}]_vars

\* Drop waits in join after a notification that found the poller holding
\* the Session State lock, not waiting.
C18_NotifiedWhileBusy ==
    \E i \in PanelIds :
        /\ uiPc = "join"
        /\ uiPanel = i
        /\ stop[i]
        /\ pollerPc[i] = "send"
        /\ ctxOwner = PollerOwner(i)

\* C19: a reconciliation pass over a fetched block selects the first row if
\* the table was empty; otherwise, if the selected row's identity is among
\* the rows of the new list, the row of that identity is the selected row
\* after the pass, wherever the sort puts it.
C19_SelectionFollowsIdentity ==
    [][(uiPc = "idle" /\ ctxOwner = NoOwner /\ processes # None
            /\ processes' = None /\ UpdateProcesses)
        => /\ tableItems = <<>> => focus' = 0
           /\ (TableItem # None /\ TableItem[1].query_id \in RowIds(tableItems'))
                 => /\ focus' < Len(tableItems')
                    /\ tableItems'[focus' + 1].query_id = TableItem[1].query_id]_vars

\* A pass is about to run with a row other than the first selected, on a
\* block that has the selected identity at another elapsed time and one
\* more row.
C19_SelectedRowRefreshed ==
    /\ uiPc = "idle"
    /\ Installed("processes")
    /\ ctxOwner = NoOwner
    /\ focus > 0
    /\ TableItem # None
    /\ processes # None
    /\ Len(processes[1]) > 1
    /\ \E n \in 1..Len(processes[1]) :
          /\ processes[1][n].query_id = TableItem[1].query_id
          /\ processes[1][n].elapsed # TableItem[1].elapsed

\* C20: Left clears the drill-down identity, with or without a selected row,
\* and the list becomes the projection without drill-down; Right on a
\* selected row X makes X's identity the drill-down identity and the list
\* becomes exactly the rows whose parent identity it is.  Both are done in
\* the one step, and neither changes the map, the grouping flag, the
\* worker's channel, the scheduled closures or the processes slot.
C20_DrillDownIsLocal ==
    [][/\ (pollerPc' = pollerPc /\ workerPc' = workerPc /\ KeyLeft)
             => /\ query_id' = None
                /\ ListsExactly(tableItems', items, None, group_by)
                /\ UNCHANGED <<items, group_by, queue, cbSink, processes, screen>>
       /\ (pollerPc' = pollerPc /\ workerPc' = workerPc /\ TableItem # None
              /\ KeyRight)
             => /\ query_id' = Some(TableItem[1].query_id)
                /\ RowIds(tableItems')
                      = {q \in DOMAIN items :
                            items[q].initial_query_id = TableItem[1].query_id}
                /\ ListsExactly(tableItems', items, query_id', group_by)
                /\ UNCHANGED <<items, group_by, queue, cbSink, processes, screen>>]_vars

\* The operator has drilled into a query that has a shard query, with
\* grouping on: Left will bring back the top-level rows.
C20_DrilledDown ==
    /\ uiPc = "idle"
    /\ Installed("processes")
    /\ group_by
    /\ query_id # None
    /\ Len(tableItems) = 2
    /\ \E q \in DOMAIN items : ~items[q].is_initial_query
    /\ \E q \in DOMAIN items : items[q].initial_query_id # query_id[1]

\* The kill commands of a channel, in order.
KillsIn(channel) ==
    SelectSeq(channel, LAMBDA c : \E q \in QueryIds : c = KillQuery(q))

\* C21: the kill target is bound when K is pressed.  The closure K schedules
\* holds the identity of the row selected at the keypress; scheduled
\* closures and open dialogs keep their identity through every step
\* (refreshes, reconciliation passes, selection moves); the closure builds
\* the dialog for its identity; and the affirmative button submits exactly
\* one KillQuery, for the dialog's identity, whatever row is selected then.
C21_KillTargetBoundAtKeypress ==
    [][/\ (TableItem # None /\ KeyClosure("K"))
             => /\ cbSink' = Append(cbSink, [key |-> "K",
                                             query_id |-> TableItem[1].query_id])
                /\ UNCHANGED <<queue, screen>>
       /\ Len(cbSink') >= Len(cbSink)
             => SubSeq(cbSink', 1, Len(cbSink)) = cbSink
       /\ Len(cbSink') < Len(cbSink)
             => /\ cbSink' = Tail(cbSink)
                /\ screen' = Append(screen,
                                    [name |-> LayerOf(Head(cbSink).key),
                                     panel |-> 0,
                                     query_id |-> Head(cbSink).query_id])
       /\ \A n \in 1..Len(screen) : n <= Len(screen') => screen'[n] = screen[n]
       /\ DialogYes
             => /\ KillsIn(queue')
                      = Append(KillsIn(queue), KillQuery(screen[Len(screen)].query_id))
                /\ Len(queue') = Len(queue) + 1
                /\ screen' = SubSeq(screen, 1, Len(screen) - 1)
       /\ Len(KillsIn(queue')) <= Len(KillsIn(queue)) + 1]_vars

\* The kill dialog built for A is open and can be affirmed while A has left
\* the table and the selection is on C.
C21_TargetNoLongerSelected ==
    /\ AsksToKill("A")
    /\ ENABLED DialogYes
    /\ "A" \notin RowIds(tableItems)
    /\ TableItem # None
    /\ TableItem[1].query_id = "C"

\* C22: each fetched result set is reconciled at most once.  A pass of
\* update_processes that gets the Session State lock leaves the processes
\* slot empty, whether the slot held a result set or not and whether its rows
\* decoded or not; a pass that does not get the lock leaves the slot as it
\* was; and a result set comes into the slot only by the worker's store
\* under the lock.  So the result set a pass decodes was written after the
\* pass before it ended, and is not the one the previous map was built from.
C22_ResultSetTakenOnce ==
    [][/\ (ctxOwner = NoOwner /\ UpdateProcesses) => processes' = None
       /\ (ctxOwner # NoOwner /\ UpdateProcesses) => processes' = processes
       /\ (processes' # None /\ processes' # processes)
             => /\ workerPc = "store"
                /\ ctxOwner = WorkerOwner
                /\ workerPc' = "idle"]_vars

\* A pass is about to run with the lock free on a result set that was
\* written after an earlier one was reconciled, and that has a row that
\* does not decode.
C22_LaterResultSet ==
    /\ uiPc = "idle"
    /\ Installed("processes")
    /\ ctxOwner = NoOwner
    /\ DOMAIN items # {}
    /\ processes # None
    /\ ~AllDecode(processes[1])

\* C23: the presentation list never diverges from the reconciled map.  After
\* every call of update_processes, whatever its outcome, and after every
\* Left and Right, the identities of the table's rows are those of the
\* active filter applied to the map.
C23_ListFollowsMap ==
    [][(UpdateProcesses \/ KeyLeft \/ KeyRight)
        => RowIds(tableItems') = Filtered(items', query_id', group_by')]_vars

\* The thread that holds the Session State lock can take its next step, which
\* releases the lock.
CtxHolderRuns ==
    /\ ctxOwner = WorkerOwner => ENABLED WorkerStore(LockBlocks)
    /\ \A i \in PanelIds : ctxOwner = PollerOwner(i) => ENABLED PollerSend(i)

\* The worker's channel has no room for panel i's refresh commands.
ChannelFull(i) == Len(queue) + Len(RefreshCommands(kind[i])) > MaxQueue

\* Panel i's loop can take a step, or it stands before a channel that is
\* full and that the worker can drain.
PollerRunsOn(i) ==
    \/ ENABLED PollerStep(i)
    \/ pollerPc[i] = "try" /\ ChannelFull(i) /\ ENABLED WorkerRuns

\* C24: no deadlock between the UI thread and a poller.  In every state the
\* holder of the Session State lock can release it, so that the UI thread's
\* blocking lock (construction, row keys) is granted; a poller at try_lock
\* is not made to wait and holds the stop-flag mutex neither there nor while
\* it holds the Session State lock; a live poller can always take a step;
\* and teardown holds neither lock while it joins, waits for the stop-flag
\* mutex only while the poller is about to release it, and joins a loop
\* that can run.
C24_NoDeadlock ==
    /\ CtxHolderRuns
    /\ \A i \in PanelIds :
          /\ (pollerPc[i] = "try" /\ ctxOwner # NoOwner) => ENABLED PollerTryLock(i)
          /\ pollerPc[i] \in {"try", "send"} => cvOwner[i] = "none"
          /\ ctxOwner = PollerOwner(i) => pollerPc[i] = "send"
          /\ cvOwner[i] = "poller" => ENABLED PollerStep(i)
          /\ PollerLive(i) => PollerRunsOn(i)
    /\ uiPc = "drop" /\ uiPanel \in PanelIds
          => (ENABLED DropSetStop \/ ENABLED PollerStep(uiPanel))
    /\ uiPc = "join"
          => /\ cvOwner[uiPanel] \in {"none", "poller"}
             /\ ctxOwner \in {NoOwner, WorkerOwner} \cup {PollerOwner(i) : i \in PanelIds}
             /\ (ENABLED DropJoin \/ PollerRunsOn(uiPanel))

\* Teardown waits in join for a loop that stands at try_lock while the
\* worker holds the Session State lock.
C24_JoinUnderContention ==
    \E i \in PanelIds :
        /\ uiPc = "join"
        /\ uiPanel = i
        /\ pollerPc[i] = "try"
        /\ ctxOwner = WorkerOwner
        /\ tableItems # <<>>

====
